---- MODULE Spec2Model ----
(***************************************************************************)
(* A model of the efficacy pipeline of demo001 (efficacy.py) and of the    *)
(* project-root lookup (utils.py).  Each function of the source is one     *)
(* state machine with its own specification:                               *)
(*   SpecLocf    prepare_locf_data                                         *)
(*   SpecDesc    calculate_descriptive_stats                               *)
(*   SpecAncova  perform_ancova                                            *)
(*   SpecFmt     format_comparison_table                                   *)
(*   SpecRoot    find_project_root                                         *)
(* A nullable cell (polars null, Python None) is a sequence of length at   *)
(* most one: << >> is null and <<v>> holds v.                              *)
(***************************************************************************)
EXTENDS Integers, Sequences, FiniteSets, TLC

VARIABLES
    \* prepare_locf_data
    adlbc, adsl_eff, param, endpoint_week, pc, data, locf_data, runs,
    \* calculate_descriptive_stats
    ds_data, ds_treatments, ds_i, desc_stats, ds_status,
    \* perform_ancova
    an_data, an_treatments, an_pc, an_params, an_i, x_pred, ls_means,
    comparisons, an_status,
    \* format_comparison_table
    fc_comparisons, fc_i, table_data, fc_status,
    \* find_project_root
    fs_markers, start_path, current_path, fr_status

locfVars == <<adlbc, adsl_eff, param, endpoint_week, pc, data, locf_data, runs>>
descVars == <<ds_data, ds_treatments, ds_i, desc_stats, ds_status>>
ancovaVars == <<an_data, an_treatments, an_pc, an_params, an_i, x_pred,
                ls_means, comparisons, an_status>>
fmtVars == <<fc_comparisons, fc_i, table_data, fc_status>>
rootVars == <<fs_markers, start_path, current_path, fr_status>>
vars == <<locfVars, descVars, ancovaVars, fmtVars, rootVars>>

(***************************************************************************)
(* Generic helpers                                                         *)
(***************************************************************************)
Null == << >>

Some(v) == <<v>>

IsNull(c) == c = Null

Val(c) == c[1]

SeqsUpTo(S, n) == UNION {[1..k -> S] : k \in 0..n}

Range(s) == {s[i] : i \in 1..Len(s)}

RECURSIVE SumSeq(_)
SumSeq(s) == IF s = << >> THEN 0 ELSE s[1] + SumSeq(Tail(s))

MaxOf(S) == CHOOSE m \in S : \A x \in S : x <= m

\* All orderings of the index set 1..n (bijections on 1..n).
Perms(n) == {p \in [1..n -> 1..n] : \A i, j \in 1..n : i # j => p[i] # p[j]}

(***************************************************************************)
(* Idle values of the machines a specification does not run                *)
(***************************************************************************)
LocfIdle ==
    /\ adlbc = << >> /\ adsl_eff = << >> /\ param = "GLUC"
    /\ endpoint_week = 0 /\ pc = "idle" /\ data = << >>
    /\ locf_data = << >> /\ runs = << >>

DescIdle ==
    /\ ds_data = << >> /\ ds_treatments = << >> /\ ds_i = 0
    /\ desc_stats = << >> /\ ds_status = "idle"

AncovaIdle ==
    /\ an_data = << >> /\ an_treatments = << >> /\ an_pc = "idle"
    /\ an_params = << >> /\ an_i = 0 /\ x_pred = << >> /\ ls_means = << >>
    /\ comparisons = << >> /\ an_status = "idle"

FmtIdle ==
    /\ fc_comparisons = << >> /\ fc_i = 0 /\ table_data = << >>
    /\ fc_status = "idle"

RootIdle ==
    /\ fs_markers = {} /\ start_path = << >> /\ current_path = << >>
    /\ fr_status = "idle"

(***************************************************************************)
(* prepare_locf_data (efficacy.py 16-69)                                   *)
(***************************************************************************)
\* Bounds of the input tables.
MaxRows == 2

\* Subject identifiers, in their sort order.
Subjects == {1, 2}

ParamCodes == {"GLUC", "ALT"}

\* Visit indices: visit 0, a visit inside and a visit outside the window.
Visits == {0, 24, 26}

EndpointWeeks == {24}

\* Observed values: null or one of two numbers.
Avals == {Null, Some(100), Some(120)}

\* Baseline covariate values: null or a number.
Bases == {Null, Some(90)}

Treatments == {"Placebo", "Low", "High"}

\* One row of the lab table (ADLBC).
LabRows ==
    [USUBJID : Subjects, PARAMCD : ParamCodes, AVISITN : Visits,
     AVAL : Avals, BASE : Bases]

\* The population tables (ADSL), one row per subject.
PopTables ==
    { <<[USUBJID |-> 1, TRTP |-> "Placebo"]>>,
      <<[USUBJID |-> 1, TRTP |-> "Placebo"], [USUBJID |-> 2, TRTP |-> "Low"]>> }

\* adlbc.join(adsl_eff, on="USUBJID", how="inner"): every lab row paired with
\* every population row of the same subject, in lab-row order.
RECURSIVE InnerJoin(_, _)
InnerJoin(lab, pop) ==
    IF lab = << >> THEN << >>
    ELSE LET r == lab[1]
             m == SelectSeq(pop, LAMBDA q : q.USUBJID = r.USUBJID)
             j == [k \in 1..Len(m) |->
                     [USUBJID |-> r.USUBJID, PARAMCD |-> r.PARAMCD,
                      AVISITN |-> r.AVISITN, AVAL |-> r.AVAL,
                      BASE |-> r.BASE, TRTP |-> m[k].TRTP]]
         IN  j \o InnerJoin(Tail(lab), pop)

\* A filter that forgets the endpoint-week bound.
InWindowAnyWeek(r, p, w) == r.PARAMCD = p

\* .filter((PARAMCD == param) & (AVISITN <= endpoint_week))
InWindow(r, p, w) == r.PARAMCD = p /\ r.AVISITN <= w

FilterRows(rows, p, w) == SelectSeq(rows, LAMBDA r : InWindow(r, p, w))

\* The sort key of .sort(["USUBJID", "AVISITN"]).
KeyLeq(a, b) ==
    \/ a.USUBJID < b.USUBJID
    \/ a.USUBJID = b.USUBJID /\ a.AVISITN <= b.AVISITN

\* The results .sort may give: the sort does not keep the order of rows with
\* equal keys (maintain_order is left False), so every arrangement of the rows
\* that is ordered by the key is a possible result.
SortResults(rows) ==
    LET n == Len(rows)
        arranged(p) == [i \in 1..n |-> rows[p[i]]]
    IN  {arranged(p) : p \in {q \in Perms(n) :
            \A i \in 1..n-1 : KeyLeq(rows[q[i]], rows[q[i+1]])}}

\* The rows of one group of group_by("USUBJID"), in the order of the frame.
GroupRows(rows, s) == SelectSeq(rows, LAMBDA r : r.USUBJID = s)

\* pl.col("AVAL").filter(pl.col("AVISITN") == 0).first()
BaselineOf(g) ==
    LET z == SelectSeq(g, LAMBDA r : r.AVISITN = 0)
    IN  IF z = << >> THEN Null ELSE z[1].AVAL

\* pl.col("AVAL").last()
LastAval(g) == g[Len(g)].AVAL

\* pl.col("AVISITN").max()
LastVisit(g) == MaxOf({g[i].AVISITN : i \in 1..Len(g)})

\* The aggregated row of one group (.agg([...])), before the null filter.
AggRow(g) ==
    [USUBJID |-> g[1].USUBJID, TRTP |-> g[1].TRTP, BASE |-> g[1].BASE,
     Baseline |-> BaselineOf(g), LOCF |-> LastAval(g),
     Last_Visit |-> LastVisit(g)]

\* .filter(Baseline.is_not_null() & Week_LOCF.is_not_null())
Eligible(a) == ~IsNull(a.Baseline) /\ ~IsNull(a.LOCF)

\* .with_columns((Week_LOCF - Baseline).alias("CHG"))
WithChg(a) ==
    [USUBJID |-> a.USUBJID, TRTP |-> a.TRTP, BASE |-> a.BASE,
     Baseline |-> a.Baseline, LOCF |-> a.LOCF, Last_Visit |-> a.Last_Visit,
     CHG |-> Some(Val(a.LOCF) - Val(a.Baseline))]

\* The frames group_by(...).agg(...).filter(...).with_columns(...) may give:
\* one row per eligible group; group_by without maintain_order returns the
\* groups in no fixed order.
LocfResults(rows) ==
    LET subs == {rows[i].USUBJID : i \in 1..Len(rows)}
        kept == {s \in subs : Eligible(AggRow(GroupRows(rows, s)))}
        out(s) == WithChg(AggRow(GroupRows(rows, s)))
        n == Cardinality(kept)
    IN  {[i \in 1..n |-> out(o[i])] : o \in {q \in [1..n -> kept] :
            \A i, j \in 1..n : i # j => q[i] # q[j]}}

InitLocf ==
    /\ adlbc \in SeqsUpTo(LabRows, MaxRows)
    /\ adsl_eff \in PopTables
    /\ param = "GLUC"
    /\ endpoint_week \in EndpointWeeks
    /\ pc = "start"
    /\ data = << >>
    /\ locf_data = << >>
    /\ runs = << >>
    /\ DescIdle /\ AncovaIdle /\ FmtIdle /\ RootIdle

\* Lines 42-46: join, filter and sort.
JoinFilterSort ==
    /\ pc = "start"
    /\ data' \in SortResults(
            FilterRows(InnerJoin(adlbc, adsl_eff), param, endpoint_week))
    /\ pc' = "sorted"
    /\ UNCHANGED <<adlbc, adsl_eff, param, endpoint_week, locf_data, runs>>
    /\ UNCHANGED <<descVars, ancovaVars, fmtVars, rootVars>>

\* Lines 49-69: aggregate per subject, drop the ineligible, add CHG, return.
ApplyLocf ==
    /\ pc = "sorted"
    /\ locf_data' \in LocfResults(data)
    /\ pc' = "done"
    /\ UNCHANGED <<adlbc, adsl_eff, param, endpoint_week, data, runs>>
    /\ UNCHANGED <<descVars, ancovaVars, fmtVars, rootVars>>

\* A second call of prepare_locf_data on the same tables: the result of the
\* first call is kept in runs for comparison.
CallAgain ==
    /\ pc = "done"
    /\ runs = << >>
    /\ runs' = <<locf_data>>
    /\ pc' = "start"
    /\ data' = << >>
    /\ locf_data' = << >>
    /\ UNCHANGED <<adlbc, adsl_eff, param, endpoint_week>>
    /\ UNCHANGED <<descVars, ancovaVars, fmtVars, rootVars>>

NextLocf == JoinFilterSort \/ ApplyLocf \/ CallAgain

SpecLocf == InitLocf /\ [][NextLocf]_vars

(***************************************************************************)
(* Properties of prepare_locf_data                                         *)
(***************************************************************************)
\* The rows of the lab table that belong to subject s, carry the requested
\* parameter and lie in the window (visit index <= endpoint_week).
SourceRows(s) ==
    {j \in 1..Len(adlbc) :
        /\ adlbc[j].USUBJID = s
        /\ adlbc[j].PARAMCD = param
        /\ adlbc[j].AVISITN <= endpoint_week}

InBothTables(s) ==
    /\ \E j \in 1..Len(adlbc) : adlbc[j].USUBJID = s
    /\ \E j \in 1..Len(adsl_eff) : adsl_eff[j].USUBJID = s

Returned(s) == \E i \in 1..Len(locf_data) : locf_data[i].USUBJID = s

\* C1: every returned record has a non-missing Baseline and a non-missing
\* LOCF endpoint, and every subject of both tables that is not returned has
\* no non-missing value at visit 0 or no non-missing observation at any
\* visit index <= endpoint_week (among the rows of the parameter).
C1_ExclusionInvariant ==
    pc = "done" =>
        /\ \A i \in 1..Len(locf_data) :
              ~IsNull(locf_data[i].Baseline) /\ ~IsNull(locf_data[i].LOCF)
        /\ \A s \in Subjects :
              (InBothTables(s) /\ ~Returned(s)) =>
                  \/ ~\E j \in SourceRows(s) :
                        adlbc[j].AVISITN = 0 /\ ~IsNull(adlbc[j].AVAL)
                  \/ ~\E j \in SourceRows(s) : ~IsNull(adlbc[j].AVAL)

\* C2: the LOCF endpoint of every returned subject is the observed value of a
\* row of that subject and parameter whose visit index is the greatest among
\* the rows with visit index <= endpoint_week; Last_Visit is that index, so
\* no row beyond endpoint_week is ever the endpoint.
C2_LocfIsLastInWindow ==
    pc = "done" =>
        \A i \in 1..Len(locf_data) :
            LET r == locf_data[i]
                W == SourceRows(r.USUBJID)
            IN  /\ W # {}
                /\ \E j \in W :
                      /\ \A k \in W : adlbc[k].AVISITN <= adlbc[j].AVISITN
                      /\ adlbc[j].AVAL = r.LOCF
                      /\ adlbc[j].AVISITN = r.Last_Visit

\* C2 witness: a subject is returned although the lab table holds a later
\* row of the same parameter, beyond endpoint_week, with another value, and
\* the table lists the subject's rows out of visit order.
C2_Witness ==
    /\ pc = "done"
    /\ \E i \in 1..Len(locf_data) :
          \E j, k \in 1..Len(adlbc) :
              /\ adlbc[j].USUBJID = locf_data[i].USUBJID
              /\ adlbc[j].PARAMCD = param
              /\ adlbc[j].AVISITN > endpoint_week
              /\ ~IsNull(adlbc[j].AVAL)
              /\ adlbc[j].AVAL # locf_data[i].LOCF
              /\ k \in SourceRows(locf_data[i].USUBJID)
              /\ j < k

\* C8: a second run on the same tables, parameter and endpoint week returns
\* the same frame as the first: the same records in the same row order.
C8_Deterministic ==
    (pc = "done" /\ runs # << >>) => locf_data = runs[1]

(***************************************************************************)
(* calculate_descriptive_stats (efficacy.py 72-128)                        *)
(***************************************************************************)
MaxSubj == 2

MaxGroups == 3

\* Python values the statistics pass through: a number num/den (a standard
\* deviation is kept as its variance), nan, or None.
FNum(n, d) == [t |-> "num", num |-> n, den |-> d]

NaN == [t |-> "nan", num |-> 0, den |-> 1]

PyNone == [t |-> "none", num |-> 0, den |-> 1]

\* The columns of the frame prepare_locf_data returns: the group key, the
\* aggregates in the order of .agg, then CHG.
FrameColumns ==
    <<"USUBJID", "TRTP", "BASE", "Baseline", "Week_24_LOCF", "Last_Visit", "CHG">>

\* Strings float() accepts; no column name is one of them.
FloatLiterals == {"0", "1", "1.5", "nan", "inf", "-inf"}

\* One record of the analysis dataset, as calculate_descriptive_stats and
\* perform_ancova read it.
AnalysisRows ==
    {[TRTP |-> g, BASE |-> 90, Baseline |-> b, LOCF |-> e, CHG |-> e - b] :
        g \in Treatments, b \in {100, 120}, e \in {100, 120}}

\* data.filter(pl.col("TRTP") == trt)
TrtData(rows, trt) == SelectSeq(rows, LAMBDA r : r.TRTP = trt)

\* Series.mean(): None for an empty column.
Mean(xs) == IF xs = << >> THEN PyNone ELSE FNum(SumSeq(xs), Len(xs))

\* Series.std(), ddof = 1: None for fewer than two values; the number kept is
\* the sample variance (n*sum(x^2) - sum(x)^2) / (n*(n-1)).
Std(xs) ==
    IF Len(xs) < 2 THEN PyNone
    ELSE LET n == Len(xs)
             sq == [i \in 1..n |-> xs[i] * xs[i]]
         IN  FNum(n * SumSeq(sq) - SumSeq(xs) * SumSeq(xs), n * (n - 1))

Column(rows, c) ==
    [i \in 1..Len(rows) |->
        CASE c = "Baseline" -> rows[i].Baseline
          [] c = "Week_24_LOCF" -> rows[i].LOCF
          [] c = "CHG" -> rows[i].CHG
          [] OTHER -> rows[i].BASE]

\* float(v) of a number or None: "ok" or the exception it raises.
FloatOf(v) == IF v.t = "none" THEN "TypeError" ELSE "ok"

\* float(s) of a string.
FloatOfStr(s) == IF s \in FloatLiterals THEN "ok" ELSE "ValueError"

\* trt_data.select(pl.col("*").exclude("USUBJID", "TRTP")).columns
ExcludedColumns == SelectSeq(FrameColumns, LAMBDA c : c \notin {"USUBJID", "TRTP"})

\* The entries of stats_dict in the order Python evaluates them (lines
\* 96-113), each with the exception its expression raises or "ok".
\* Endpoint_Mean and Endpoint_SD are conditional expressions: with more than
\* three columns they evaluate float(<column name>).mean(), which applies
\* float to the name of the third remaining column and then asks a float for
\* .mean / .std.
StatsEntries(trt_data) ==
    LET wide == Len(FrameColumns) > 3
        name == ExcludedColumns[3]
        viaName == IF FloatOfStr(name) = "ok" THEN "AttributeError"
                   ELSE FloatOfStr(name)
    IN  << [key |-> "Baseline_Mean",
            val |-> Mean(Column(trt_data, "Baseline")),
            exc |-> FloatOf(Mean(Column(trt_data, "Baseline")))],
           [key |-> "Baseline_SD",
            val |-> Std(Column(trt_data, "Baseline")),
            exc |-> FloatOf(Std(Column(trt_data, "Baseline")))],
           [key |-> "Endpoint_Mean",
            val |-> Mean(Column(trt_data, "Week_24_LOCF")),
            exc |-> IF wide THEN viaName
                    ELSE FloatOf(Mean(Column(trt_data, "Week_24_LOCF")))],
           [key |-> "Endpoint_SD",
            val |-> Std(Column(trt_data, "Week_24_LOCF")),
            exc |-> IF wide THEN viaName
                    ELSE FloatOf(Std(Column(trt_data, "Week_24_LOCF")))],
           [key |-> "Change_Mean",
            val |-> Mean(Column(trt_data, "CHG")),
            exc |-> FloatOf(Mean(Column(trt_data, "CHG")))],
           [key |-> "Change_SD",
            val |-> Std(Column(trt_data, "CHG")),
            exc |-> FloatOf(Std(Column(trt_data, "CHG")))] >>

\* The first exception raised while stats_dict is built, or "ok".
FirstException(entries) ==
    IF \A i \in 1..Len(entries) : entries[i].exc = "ok" THEN "ok"
    ELSE entries[CHOOSE i \in 1..Len(entries) :
                    /\ entries[i].exc # "ok"
                    /\ \A j \in 1..(i - 1) : entries[j].exc = "ok"].exc

\* stats_dict of a group with records (lines 96-113).
StatsDict(trt, trt_data) ==
    LET e == StatsEntries(trt_data)
    IN  [Treatment |-> trt, N_Analysis |-> Len(trt_data),
         Baseline_Mean |-> e[1].val, Baseline_SD |-> e[2].val,
         Endpoint_Mean |-> e[3].val, Endpoint_SD |-> e[4].val,
         Change_Mean |-> e[5].val, Change_SD |-> e[6].val]

\* stats_dict of a group without records (lines 115-124).
EmptyStatsDict(trt) ==
    [Treatment |-> trt, N_Analysis |-> 0,
     Baseline_Mean |-> NaN, Baseline_SD |-> NaN,
     Endpoint_Mean |-> NaN, Endpoint_SD |-> NaN,
     Change_Mean |-> NaN, Change_SD |-> NaN]

\* if trt_data.height > 0 (line 95)
HasRecords(trt_data) == Len(trt_data) > 0

InitDesc ==
    /\ ds_data \in SeqsUpTo(AnalysisRows, MaxSubj)
    /\ ds_treatments \in SeqsUpTo(Treatments, MaxGroups)
    /\ ds_i = 1
    /\ desc_stats = << >>
    /\ ds_status = "running"
    /\ LocfIdle /\ AncovaIdle /\ FmtIdle /\ RootIdle

\* One pass of the loop over a group with records (lines 92-113, 126).
DescGroupWithRecords ==
    /\ ds_status = "running"
    /\ ds_i <= Len(ds_treatments)
    /\ LET trt == ds_treatments[ds_i]
           trt_data == TrtData(ds_data, trt)
           exc == FirstException(StatsEntries(trt_data))
       IN  /\ HasRecords(trt_data)
           /\ IF exc = "ok"
              THEN /\ desc_stats' = Append(desc_stats, StatsDict(trt, trt_data))
                   /\ ds_i' = ds_i + 1
                   /\ ds_status' = ds_status
              ELSE /\ ds_status' = exc
                   /\ UNCHANGED <<desc_stats, ds_i>>
    /\ UNCHANGED <<ds_data, ds_treatments>>
    /\ UNCHANGED <<locfVars, ancovaVars, fmtVars, rootVars>>

\* One pass of the loop over a group without records (lines 92-95, 114-126).
DescEmptyGroup ==
    /\ ds_status = "running"
    /\ ds_i <= Len(ds_treatments)
    /\ LET trt == ds_treatments[ds_i]
           trt_data == TrtData(ds_data, trt)
       IN  /\ ~HasRecords(trt_data)
           /\ desc_stats' = Append(desc_stats, EmptyStatsDict(trt))
    /\ ds_i' = ds_i + 1
    /\ UNCHANGED <<ds_data, ds_treatments, ds_status>>
    /\ UNCHANGED <<locfVars, ancovaVars, fmtVars, rootVars>>

\* return desc_stats (line 128)
DescReturn ==
    /\ ds_status = "running"
    /\ ds_i > Len(ds_treatments)
    /\ ds_status' = "returned"
    /\ UNCHANGED <<ds_data, ds_treatments, ds_i, desc_stats>>
    /\ UNCHANGED <<locfVars, ancovaVars, fmtVars, rootVars>>

NextDesc == DescGroupWithRecords \/ DescEmptyGroup \/ DescReturn

SpecDesc == InitDesc /\ [][NextDesc]_vars

(***************************************************************************)
(* Properties of calculate_descriptive_stats                               *)
(***************************************************************************)
DescFinished == ds_status \notin {"idle", "running"}

CountOf(trt) == Len(TrtData(ds_data, trt))

Reported(v) == v.t = "num"

\* C4: the call returns, without failing, one record per listed group in
\* list order whose count is the number of records of that group; a group
\* without records has count 0 and only missing means and SDs; a group with
\* records has its means reported, and its SDs reported unless it has
\* exactly one record, whose SDs are missing.
C4_OneRecordPerGroup ==
    DescFinished =>
        /\ ds_status = "returned"
        /\ Len(desc_stats) = Len(ds_treatments)
        /\ \A i \in 1..Len(desc_stats) :
              LET d == desc_stats[i]
                  means == {d.Baseline_Mean, d.Endpoint_Mean, d.Change_Mean}
                  sds == {d.Baseline_SD, d.Endpoint_SD, d.Change_SD}
              IN  /\ d.Treatment = ds_treatments[i]
                  /\ d.N_Analysis = CountOf(ds_treatments[i])
                  /\ d.N_Analysis = 0 => means \cup sds = {NaN}
                  /\ d.N_Analysis >= 1 => \A m \in means : Reported(m)
                  /\ d.N_Analysis = 1 => sds = {NaN}
                  /\ d.N_Analysis >= 2 => \A v \in sds : Reported(v)

\* C5: the per-group counts of the returned records add up to the number of
\* records of the analysis dataset.  Stated for the lists that name every
\* group of the dataset, each once: there the total is the sum of the sizes
\* of the listed groups.
C5_CountsAddUp ==
    ( /\ DescFinished
      /\ ~\E i, j \in 1..Len(ds_treatments) :
            i # j /\ ds_treatments[i] = ds_treatments[j]
      /\ \A k \in 1..Len(ds_data) : ds_data[k].TRTP \in Range(ds_treatments) )
    => /\ ds_status = "returned"
       /\ SumSeq([i \in 1..Len(desc_stats) |-> desc_stats[i].N_Analysis])
             = Len(ds_data)

(***************************************************************************)
(* perform_ancova (efficacy.py 131-213)                                    *)
(* The numbers of the fit (coefficients, covariance) are not computed: a   *)
(* coefficient is known by its name, the covariance matrix by its size, a  *)
(* standard error by the vector whose quadratic form it is.                *)
(***************************************************************************)
HasDuplicates(seq) == \E i, j \in 1..Len(seq) : i # j /\ seq[i] = seq[j]

\* The name of a coefficient of the fitted model: "Intercept", "BASE" or
\* "TRTP[T.<level>]".
Coef(term, level) == [term |-> term, level |-> level]

\* The rows the fit uses: pd.Categorical(..., categories=treatments) turns a
\* label outside treatments into a missing value and the formula interface
\* drops rows with missing values.
UsableRows(rows, treatments) ==
    SelectSeq(rows, LAMBDA r : r.TRTP \in Range(treatments))

\* model.params of smf.ols("CHG ~ TRTP + BASE"): the intercept, one
\* indicator per category after the first (the categories are those given to
\* pd.Categorical, whether or not a row carries them), and the covariate.
ModelParams(treatments) ==
    <<Coef("Intercept", "")>>
    \o [j \in 1..(Len(treatments) - 1) |-> Coef("TRTP", treatments[j + 1])]
    \o <<Coef("BASE", "")>>

Ind(b) == IF b THEN "1" ELSE "0"

\* x_pred = np.array([1, int(i == 1), int(i == 2), base_mean]) (line 161);
\* i counts from 0.
XPred(i) == <<"1", Ind(i = 1), Ind(i = 2), "base_mean">>

\* x_pred @ var_cov @ x_pred.T (line 167): var_cov is square of the size of
\* model.params; the product is defined only for a vector of that length.
QuadFormDefined(x, params) == Len(x) = Len(params)

\* A loop over the non-reference groups that leaves out the last one.
ContrastsDropLast(treatments, params) ==
    IF Len(treatments) > 1
    THEN LET placebo == treatments[1]
             rest == [j \in 1..(Len(treatments) - 2) |-> treatments[j + 1]]
             have == SelectSeq(rest, LAMBDA t : Coef("TRTP", t) \in Range(params))
         IN  [j \in 1..Len(have) |->
                [Comparison |-> [group |-> have[j], ref |-> placebo],
                 Estimate |-> Coef("TRTP", have[j])]]
    ELSE << >>

\* Lines 180-206: the comparisons against treatments[0], one per later
\* treatment whose coefficient is in model.params.
Contrasts(treatments, params) ==
    IF Len(treatments) > 1
    THEN LET placebo == treatments[1]
             rest == Tail(treatments)
             have == SelectSeq(rest, LAMBDA t : Coef("TRTP", t) \in Range(params))
         IN  [j \in 1..Len(have) |->
                [Comparison |-> [group |-> have[j], ref |-> placebo],
                 Estimate |-> Coef("TRTP", have[j])]]
    ELSE << >>

InitAncova ==
    /\ an_data \in SeqsUpTo(AnalysisRows, MaxSubj)
    /\ an_treatments \in SeqsUpTo(Treatments, MaxGroups) \ {<< >>}
    /\ an_pc = "categorical"
    /\ an_params = << >>
    /\ an_i = 0
    /\ x_pred = << >>
    /\ ls_means = << >>
    /\ comparisons = << >>
    /\ an_status = "running"
    /\ LocfIdle /\ DescIdle /\ FmtIdle /\ RootIdle

\* Lines 148-149: pd.Categorical raises ValueError when the categories are
\* not unique.
Categorical ==
    /\ an_status = "running"
    /\ an_pc = "categorical"
    /\ IF HasDuplicates(an_treatments)
       THEN an_status' = "ValueError" /\ an_pc' = an_pc
       ELSE an_status' = an_status /\ an_pc' = "fit"
    /\ UNCHANGED <<an_data, an_treatments, an_params, an_i, x_pred, ls_means,
                   comparisons>>
    /\ UNCHANGED <<locfVars, descVars, fmtVars, rootVars>>

\* Lines 152-157: the fit.  OLS solves by pseudo-inverse, so a design matrix
\* that is not of full rank (a category without rows) is fitted like any
\* other.  Without any usable row the library may fit or raise.
Fit ==
    /\ an_status = "running"
    /\ an_pc = "fit"
    /\ \/ /\ an_params' = ModelParams(an_treatments)
          /\ an_pc' = "ls_means"
          /\ an_status' = an_status
       \/ /\ UsableRows(an_data, an_treatments) = << >>
          /\ an_status' = "ValueError"
          /\ UNCHANGED <<an_params, an_pc>>
    /\ UNCHANGED <<an_data, an_treatments, an_i, x_pred, ls_means, comparisons>>
    /\ UNCHANGED <<locfVars, descVars, fmtVars, rootVars>>

\* Lines 159-177: one pass of the loop over treatments; an_i is i.
LsMean ==
    /\ an_status = "running"
    /\ an_pc = "ls_means"
    /\ an_i < Len(an_treatments)
    /\ x_pred' = XPred(an_i)
    /\ IF QuadFormDefined(x_pred', an_params)
       THEN /\ ls_means' = Append(ls_means,
                   [Treatment |-> an_treatments[an_i + 1], SE |-> x_pred'])
            /\ an_i' = an_i + 1
            /\ an_status' = an_status
       ELSE /\ an_status' = "ValueError"
            /\ UNCHANGED <<ls_means, an_i>>
    /\ UNCHANGED <<an_data, an_treatments, an_pc, an_params, comparisons>>
    /\ UNCHANGED <<locfVars, descVars, fmtVars, rootVars>>

\* Lines 179-213: the comparisons and the return.
Compare ==
    /\ an_status = "running"
    /\ an_pc = "ls_means"
    /\ an_i = Len(an_treatments)
    /\ comparisons' = Contrasts(an_treatments, an_params)
    /\ an_pc' = "done"
    /\ an_status' = "returned"
    /\ UNCHANGED <<an_data, an_treatments, an_params, an_i, x_pred, ls_means>>
    /\ UNCHANGED <<locfVars, descVars, fmtVars, rootVars>>

NextAncova == Categorical \/ Fit \/ LsMean \/ Compare

SpecAncova == InitAncova /\ [][NextAncova]_vars

(***************************************************************************)
(* Properties of perform_ancova                                            *)
(***************************************************************************)
AncovaFinished == an_status \notin {"idle", "running"}

RowsOf(trt) == Len(TrtData(an_data, trt))

\* C3: with a list of two groups of which exactly one has no record, the
\* call fails with SingularDesignError.
C3_DegenerateFails ==
    ( /\ AncovaFinished
      /\ Len(an_treatments) = 2
      /\ ~HasDuplicates(an_treatments)
      /\ \E a, b \in 1..2 : /\ a # b
                           /\ RowsOf(an_treatments[a]) = 0
                           /\ RowsOf(an_treatments[b]) > 0 )
    => an_status = "SingularDesignError"

\* C6: a call that returns gives one comparison per non-reference group, in
\* list order, each of that group against the first label of the list and
\* estimated by that group's own coefficient.
C6_ContrastsAgainstReference ==
    an_status = "returned" =>
        /\ Len(comparisons) = Len(an_treatments) - 1
        /\ \A j \in 1..Len(comparisons) :
              /\ comparisons[j].Comparison.group = an_treatments[j + 1]
              /\ comparisons[j].Comparison.ref = an_treatments[1]
              /\ comparisons[j].Estimate = Coef("TRTP", an_treatments[j + 1])

\* C6 witness: a call with three groups has returned, one of the
\* non-reference groups having no record.
C6_Witness ==
    /\ an_status = "returned"
    /\ Len(comparisons) = 2
    /\ \E j \in 2..Len(an_treatments) : RowsOf(an_treatments[j]) = 0
    /\ \E j \in 2..Len(an_treatments) : RowsOf(an_treatments[j]) > 0

\* The row of the design matrix for the group at position g (from 1) of the
\* list: 1 for the intercept, one indicator per non-reference group that is
\* 1 for g's own column, and the pooled mean of the covariate.
DesignRow(treatments, g) ==
    <<"1">> \o [j \in 1..(Len(treatments) - 1) |-> Ind(j + 1 = g)]
    \o <<"base_mean">>

\* The position of the group the latest x_pred was built for.
XPredGroup == IF an_status = "ValueError" THEN an_i + 1 ELSE an_i

\* C7: for a list of any length, the vector whose quadratic form gives the
\* standard error of a group's adjusted mean is that group's design row and
\* has one entry per coefficient of the model.
C7_PredictionVectorMatchesDesign ==
    x_pred # << >> =>
        /\ Len(x_pred) = Len(an_params)
        /\ x_pred = DesignRow(an_treatments, XPredGroup)

(***************************************************************************)
(* format_comparison_table (efficacy.py 271-297)                           *)
(* A p-value is a float: nan, or a number counted in millionths.  An       *)
(* estimate or confidence limit is a number counted in thousandths.        *)
(***************************************************************************)
MaxComps == 2

PNum(u) == [nan |-> FALSE, u |-> u]

PNaN == [nan |-> TRUE, u |-> 0]

\* The literal 0.0001 of line 291, in millionths.
Threshold == PNum(100)

\* The p-values tried: 0, 0.00004, 0.000099, 0.0001, 0.000149, 0.000151,
\* 0.05, 1 and nan (which perform_ancova yields when the standard error of a
\* coefficient is undefined).  None lies half-way between two 4-decimal values.
PValues == {PNum(0), PNum(40), PNum(99), PNum(100), PNum(149), PNum(151),
            PNum(50000), PNum(1000000), PNaN}

\* Python's a >= b on floats: False when either side is nan.
FloatGe(a, b) == ~a.nan /\ ~b.nan /\ a.u >= b.u

\* Python's a < b on floats: False when either side is nan.
FloatLt(a, b) == ~a.nan /\ ~b.nan /\ a.u < b.u

\* f"{p:.4f}": the number of ten-thousandths nearest to p, or "nan".
Fixed4(p) ==
    IF p.nan THEN [text |-> "nan", d |-> 0]
    ELSE [text |-> "fixed4", d |-> (p.u + 50) \div 100]

FloorLiteral == [text |-> "<0.0001", d |-> 0]

\* f"{x:.2f}" of a number in thousandths: the nearest number of hundredths.
Fixed2(x) == (x + 5) \div 10

\* Line 291: the P_Value cell.
PValueCell(p) == IF FloatGe(p, Threshold) THEN Fixed4(p) ELSE FloorLiteral

\* Lines 288-292: one row of the table.
ComparisonRow(comp) ==
    [Comparison |-> comp.Comparison,
     Diff_CI |-> <<Fixed2(comp.Estimate), Fixed2(comp.CI_Lower),
                   Fixed2(comp.CI_Upper)>>,
     P_Value |-> PValueCell(comp.p_value)]

ComparisonRecords ==
    {[Comparison |-> [group |-> g, ref |-> "Placebo"], Estimate |-> e,
      CI_Lower |-> e - 2002, CI_Upper |-> e + 2002, p_value |-> p] :
        g \in {"Low", "High"}, e \in {-1234, 567}, p \in PValues}

InitFmt ==
    /\ fc_comparisons \in SeqsUpTo(ComparisonRecords, MaxComps)
    /\ fc_i = 1
    /\ table_data = << >>
    /\ fc_status = "running"
    /\ LocfIdle /\ DescIdle /\ AncovaIdle /\ RootIdle

\* Lines 287-293: one pass of the loop.
FormatRow ==
    /\ fc_status = "running"
    /\ fc_i <= Len(fc_comparisons)
    /\ table_data' = Append(table_data, ComparisonRow(fc_comparisons[fc_i]))
    /\ fc_i' = fc_i + 1
    /\ UNCHANGED <<fc_comparisons, fc_status>>
    /\ UNCHANGED <<locfVars, descVars, ancovaVars, rootVars>>

\* Lines 295-297: the frame is built from the rows, in their order.
FormatReturn ==
    /\ fc_status = "running"
    /\ fc_i > Len(fc_comparisons)
    /\ fc_status' = "returned"
    /\ UNCHANGED <<fc_comparisons, fc_i, table_data>>
    /\ UNCHANGED <<locfVars, descVars, ancovaVars, rootVars>>

NextFmt == FormatRow \/ FormatReturn

SpecFmt == InitFmt /\ [][NextFmt]_vars

\* C9: the table has one row per contrast in input order, and the p-value
\* cell is "<0.0001" exactly when the p-value is strictly less than 0.0001
\* and the p-value to 4 decimals otherwise.
C9_PValueFloor ==
    fc_status = "returned" =>
        /\ Len(table_data) = Len(fc_comparisons)
        /\ \A i \in 1..Len(table_data) :
              LET p == fc_comparisons[i].p_value
                  cell == table_data[i].P_Value
              IN  /\ table_data[i].Comparison = fc_comparisons[i].Comparison
                  /\ (cell = FloorLiteral) <=> FloatLt(p, Threshold)
                  /\ ~FloatLt(p, Threshold) => cell = Fixed4(p)

(***************************************************************************)
(* find_project_root (utils.py 11-39)                                      *)
(* A directory is the sequence of names from the filesystem root, which is *)
(* the empty sequence; fs_markers is the set of directories that hold a    *)
(* pyproject.toml.                                                         *)
(***************************************************************************)
MaxDepth == 2

DirNames == {"home", "proj"}

Dirs == SeqsUpTo(DirNames, MaxDepth)

\* Path.parent: the root is its own parent.
Parent(path) == IF path = << >> THEN << >> ELSE SubSeq(path, 1, Len(path) - 1)

\* (path / "pyproject.toml").exists()
HasMarker(path) == path \in fs_markers

\* start_path and all of its parent directories, the root included.
Ancestors(path) == {SubSeq(path, 1, n) : n \in 0..Len(path)}

InitRoot ==
    /\ fs_markers \in SUBSET Dirs
    /\ start_path \in Dirs
    /\ current_path = start_path
    /\ fr_status = "running"
    /\ LocfIdle /\ DescIdle /\ AncovaIdle /\ FmtIdle

\* Lines 34-36: inside the loop, the marker is found.
RootFound ==
    /\ fr_status = "running"
    /\ current_path # Parent(current_path)
    /\ HasMarker(current_path)
    /\ fr_status' = "returned"
    /\ UNCHANGED <<fs_markers, start_path, current_path>>
    /\ UNCHANGED <<locfVars, descVars, ancovaVars, fmtVars>>

\* Lines 34-37: inside the loop, the marker is not here; go up.
RootAscend ==
    /\ fr_status = "running"
    /\ current_path # Parent(current_path)
    /\ ~HasMarker(current_path)
    /\ current_path' = Parent(current_path)
    /\ UNCHANGED <<fs_markers, start_path, fr_status>>
    /\ UNCHANGED <<locfVars, descVars, ancovaVars, fmtVars>>

\* Lines 34, 39: the loop ends when the path is its own parent.
RootRaise ==
    /\ fr_status = "running"
    /\ current_path = Parent(current_path)
    /\ fr_status' = "FileNotFoundError"
    /\ UNCHANGED <<fs_markers, start_path, current_path>>
    /\ UNCHANGED <<locfVars, descVars, ancovaVars, fmtVars>>

NextRoot == RootFound \/ RootAscend \/ RootRaise

SpecRoot == InitRoot /\ [][NextRoot]_vars

\* C10: the call ends; it returns the nearest directory among start_path and
\* its parents, up to and including the root, that holds pyproject.toml, and
\* raises FileNotFoundError exactly when none of them holds it.
C10_NearestMarker ==
    /\ fr_status = "running" => ENABLED NextRoot
    /\ fr_status = "FileNotFoundError" <=>
          (fr_status # "running" /\ Ancestors(start_path) \cap fs_markers = {})
    /\ fr_status = "returned" =>
          /\ current_path \in Ancestors(start_path) \cap fs_markers
          /\ \A d \in Ancestors(start_path) \cap fs_markers :
                Len(d) <= Len(current_path)

====
